---- MODULE Spec2Model ----
(***************************************************************************)
(* A model of btc_puzzle_hunter's search engine: the sequential batch      *)
(* searcher (main.rs), the adaptive random walk and its parallel           *)
(* orchestrator (random_walk.rs), and the worker allocator, the benchmark   *)
(* estimator and the parameter planner (lib.rs).                           *)
(*                                                                         *)
(* Numbers are scaled so that the state space is finite: a machine word    *)
(* (u64 / usize) has WordBits bits instead of 64, the secp256k1 group      *)
(* order is CurveOrder, and the flush periods are a few candidates instead *)
(* of thousands.  BigUint values are unbounded naturals.                   *)
(***************************************************************************)
EXTENDS Integers, Sequences, FiniteSets, TLC

VARIABLES
    mode,           \* which operation this behaviour runs
    start, end,     \* the Range handed to the operation
    targets,        \* the TargetSet
    pc,             \* position of the calling thread in the operation
    result,         \* what the operation returned
    found,          \* Arc<AtomicBool> found
    keys_checked,   \* Arc<AtomicU64> keys_checked
    batch_size,     \* search_range's batch_size
    batches,        \* per batch index: the rayon task running search_batch
    max_iter,       \* max_iter / max_iter_per_thread of the walk
    adapt_interval, \* adapt_interval as the caller passes it
    num_walks,      \* num_walks of the orchestrator
    walks,          \* per walk_id: one adaptive_random_walk_search call
    workers,        \* the allocator's worker list: hashes_per_second of each
    target_time,    \* target_time_minutes * 60 as a fraction <<num, den>>
    widx,           \* the worker the allocator's for loop is at
    current_position, \* the allocator's cursor
    worker_ranges,  \* the assignments pushed so far
    remaining_range, \* the leftover the allocator returns
    benchmark_duration_seconds, \* the benchmark's duration
    thread_count,   \* the benchmark's thread count
    elapsed,        \* start_time.elapsed(), in seconds
    handles,        \* per thread_id: the benchmark thread and its locals
    total_keys_tested, \* Arc<AtomicU64> total_keys_tested
    hashes_per_second, \* the throughputs calculate_walk_parameters is called with
    parameters      \* what the calls made so far returned

seqVars == <<batch_size, batches>>

walkVars == <<max_iter, adapt_interval, num_walks, walks>>

allocVars == <<workers, target_time, widx, current_position, worker_ranges,
               remaining_range>>

benchVars == <<benchmark_duration_seconds, thread_count, elapsed, handles,
               total_keys_tested>>

planVars == <<hashes_per_second, parameters>>

vars == <<mode, start, end, targets, pc, result, found, keys_checked,
          seqVars, walkVars, allocVars, benchVars, planVars>>

----------------------------------------------------------------------------
(* Bounds of the model *)

\* bits of a machine word (u64, usize); 64 in the program
WordBits == 2
\* range starts are 0 and MaxStart
MaxStart == 1
\* range sizes are drawn from 1..MaxSize
MaxSize == 5
\* batch sizes are drawn from 1..MaxBatchSize (below a word)
MaxBatchSize == 2
\* stands for the secp256k1 group order: keys 1..CurveOrder-1 are valid
CurveOrder == 6
\* stands for the 10000 of search_batch's progress flush
SeqFlushEvery == 2
\* threads of the rayon pool: at most so many batches or walks run at a time
Threads == 2
\* walk range sizes are drawn from 1..MaxWalkSize
MaxWalkSize == 2
\* the largest iteration budget of a walk
MaxIter == 10
\* adapt intervals are 0 and MaxAdapt
MaxAdapt == 2
\* the orchestrator runs 0..MaxWalks walks
MaxWalks == 2
\* every random draw from lo..hi-1 takes one of its first DrawWidth values
DrawWidth == 1
\* stands for the 1000 of the walk's progress flush
WalkFlushEvery == 2
\* stands for the 5000 of the walk's step size boost
WalkBoostEvery == 4
\* the largest iteration budget of the orchestrator's walks
MaxParIter == 3
\* the allocator gets 0..MaxWorkers workers
MaxWorkers == 3
\* target_time_minutes * 60 is drawn from -1..MaxTime and the halves between
MaxTime == 2
\* benchmark durations are drawn from 0..MaxDuration seconds
MaxDuration == 2
\* the benchmark runs 0..MaxThreads threads
MaxThreads == 2
\* a benchmark thread processes at most so many candidates
MaxBenchKeys == 3
\* stands for the 1000 of the benchmark's flush
BenchFlushEvery == 2
\* stands for the 0x8000000000 the benchmark's candidates start from
BenchBase == 2
\* stands for the 1000000 between the first candidates of two threads
BenchStride == 2
\* bits of a machine word (u64, usize) in the planner's arithmetic; 64 in the
\* program
PlanWordBits == 24
\* the ring arithmetic is exercised on rings of 1..MaxRing positions, wider
\* than the machine word of WordBits bits
MaxRing == 6
\* ... with steps 1..MaxStep, longer than the ring
MaxStep == 8
\* ... over MaxMoves moves
MaxMoves == 2
\* the visited set is watched on a range of MaxWideSize keys, more than four
\* adaptations can visit
MaxWideSize == 6

----------------------------------------------------------------------------
(* Arithmetic *)

RECURSIVE Pow2(_)
Pow2(n) == IF n = 0 THEN 1 ELSE 2 * Pow2(n - 1)

Word == Pow2(WordBits)

\* usize::MAX, u64::MAX
UsizeMax == Word - 1

Min(a, b) == IF a <= b THEN a ELSE b

Max(a, b) == IF a >= b THEN a ELSE b

\* format!("{:x}", n): lowercase hex digits, most significant first, no padding
RECURSIVE FormatHex(_)
FormatHex(n) == IF n < 16 THEN <<n>> ELSE Append(FormatHex(n \div 16), n % 16)

\* width of the zero padding in format!("{:064x}", key)
HexKeyWidth == 64

\* format!("{:064x}", n): FormatHex padded on the left with zeros to 64 digits
FormatHex064(n) ==
    LET h == FormatHex(n)
    IN  IF Len(h) >= HexKeyWidth THEN h
        ELSE [i \in 1..(HexKeyWidth - Len(h)) |-> 0] \o h

\* the number the first n digits of a hex string denote
RECURSIVE HexPrefixValue(_, _)
HexPrefixValue(h, n) == IF n = 0 THEN 0 ELSE 16 * HexPrefixValue(h, n - 1) + h[n]

\* the number a hex string denotes
HexValue(h) == HexPrefixValue(h, Len(h))

----------------------------------------------------------------------------
(* The key derivation oracle, bitcoin_utils.rs *)

\* the address kinds, in the order private_key_to_addresses pushes them:
\* 1 compressed P2PKH, 2 uncompressed P2PKH, 3 P2WPKH
AddressKinds == 3

Address(k, kind) == <<kind, k>>

\* SecretKey::from_slice rejects zero and everything not below the group order
OracleFails(k) == k = 0 \/ k >= CurveOrder

\* Ok(addresses) of private_key_to_addresses
private_key_to_addresses(k) == [kind \in 1..AddressKinds |-> Address(k, kind)]

\* the first address of k that is a target, as the `for address in addresses`
\* loops of search_batch and adaptive_random_walk_search find it; 0 if none
FirstTargetKind(k, tg) ==
    LET hits == {kind \in 1..AddressKinds : private_key_to_addresses(k)[kind] \in tg}
    IN  IF OracleFails(k) \/ hits = {} THEN 0
        ELSE CHOOSE kind \in hits : \A o \in hits : kind <= o

Pending == [kind |-> "pending"]

NoMatch == [kind |-> "none"]

Fault == [kind |-> "fault"]

\* a match that names the key next after the one that was tested
MatchOfNextKey(k, a) == [kind |-> "match", key |-> FormatHex064(k + 1), addr |-> a]

\* Some((hex_key, address)) with hex_key = format!("{:064x}", private_key)
Match(k, a) == [kind |-> "match", key |-> FormatHex064(k), addr |-> a]

\* the TargetSets of the model: empty, one address of a key (its kind varies
\* with the key), or two addresses of one key
TargetSets ==
    {{}} \cup {{Address(k, (k % AddressKinds) + 1)} : k \in 1..(CurveOrder - 1)}
         \cup {{Address(k, 2), Address(k, 3)} : k \in {MaxStart + 1}}

\* the target sets a search of the Range s..e is given: none, or addresses of
\* keys of the Range
TargetsFor(s, e) == {t \in TargetSets : \A a \in t : a[2] \in s..e}

\* the Ranges of the model: from key 0, which the oracle rejects, or from
\* MaxStart; end = start - 1 is the invalid Range start > end
Ranges ==
    {<<s, e>> \in {0, MaxStart} \X (0..(MaxStart + MaxSize - 1)) :
        e >= s - 1 /\ e <= s + MaxSize - 1}

\* the Ranges a walk is given
WalkRanges == {r \in Ranges : r[2] - r[1] + 1 <= MaxWalkSize}

\* the adapt_interval a walk is given: adapt at every pass, or at every
\* MaxAdapt-th
AdaptIntervals == {0, MaxAdapt}

----------------------------------------------------------------------------
(* Sequential Batch Searcher, main.rs search_range / search_batch *)

IdleBatch == [pc |-> "pending", handed |-> FALSE, b_start |-> 0, b_end |-> 0,
              current |-> 0, local_count |-> 0, res |-> Pending]

\* line 451-453: (range_size / batch_size + 1).try_into().unwrap_or(usize::MAX)
BatchCount(range_size, bs) ==
    LET q == range_size \div bs + 1
    IN  IF q <= UsizeMax THEN q ELSE UsizeMax

\* line 462: (batch_idx as u64) * batch_size, a u64 product
BatchOffsetExact(idx, bs) == idx * bs

BatchOffsetOverflows(idx, bs) == BatchOffsetExact(idx, bs) >= Word

\* the wrapped product of a build without overflow checks
BatchOffsetWrapped(idx, bs) == BatchOffsetExact(idx, bs) % Word

\* line 463: min(batch_start + batch_size - 1, end)
BatchEnd(b_start, bs, e) == Min(b_start + bs - 1, e)

\* rayon's find_map_first: the lowest index whose Some(..) it has recorded
Recorded(idx) == batches[idx].pc = "done" /\ batches[idx].res.kind = "match"

BetterFound(idx) == \E j \in DOMAIN batches : j < idx /\ Recorded(j)

\* a thread of the pool is free to take a task
ThreadFree(tasks) ==
    Cardinality({j \in DOMAIN tasks : tasks[j].pc \in {"running", "returned"}}) < Threads

\* the allocator's variables in a behaviour that does not run it
AllocIdle ==
    /\ workers = <<>> /\ target_time = <<0, 1>> /\ widx = 0
    /\ current_position = 0 /\ worker_ranges = <<>> /\ remaining_range = <<>>

\* the benchmark's variables in a behaviour that does not run it
BenchIdle ==
    /\ benchmark_duration_seconds = 0 /\ thread_count = 0 /\ elapsed = 0
    /\ handles = <<>> /\ total_keys_tested = 0

\* the planner's variables in a behaviour that does not call it
PlanIdle == hashes_per_second = <<>> /\ parameters = <<>>

InitSeq ==
    /\ mode = "seq"
    /\ \E r \in Ranges : start = r[1] /\ end = r[2]
    /\ targets \in TargetsFor(start, end)
    /\ batch_size \in 1..Min(MaxBatchSize, UsizeMax)
    /\ pc = "call"
    /\ result = Pending
    /\ found = FALSE
    /\ keys_checked = 0
    /\ batches = <<>>
    /\ max_iter = 0 /\ adapt_interval = 0 /\ num_walks = 0 /\ walks = <<>>
    /\ AllocIdle /\ BenchIdle /\ PlanIdle

\* search_range lines 450-455: the range size, the batch count, the parallel map.
\* `&end - &start` on BigUint panics when start > end.
SearchRangeEnter ==
    /\ mode = "seq" /\ pc = "call"
    /\ IF start > end
       THEN /\ pc' = "fault"
            /\ result' = Fault
            /\ UNCHANGED batches
       ELSE /\ pc' = "run"
            /\ batches' = [idx \in 0..(BatchCount(end - start + 1, batch_size) - 1) |-> IdleBatch]
            /\ UNCHANGED result
    /\ UNCHANGED <<mode, start, end, targets, found, keys_checked, batch_size, walkVars, allocVars, benchVars, planVars>>

\* the map closure, lines 457-472, up to the call of search_batch
BatchStart(idx) ==
    /\ mode = "seq" /\ pc = "run"
    /\ batches[idx].pc = "pending"
    /\ ~BetterFound(idx)
    /\ ThreadFree(batches)
    /\ IF found
       THEN batches' = [batches EXCEPT ![idx].pc = "done", ![idx].res = NoMatch]
       ELSE \/ /\ ~BatchOffsetOverflows(idx, batch_size)
               /\ LET bs == start + BatchOffsetExact(idx, batch_size)
                  IN  batches' = [batches EXCEPT ![idx].pc = "running",
                                    ![idx].handed = TRUE,
                                    ![idx].b_start = bs,
                                    ![idx].b_end = BatchEnd(bs, batch_size, end),
                                    ![idx].current = bs]
            \* the product overflows u64: wraps without overflow checks
            \/ /\ BatchOffsetOverflows(idx, batch_size)
               /\ LET bs == start + BatchOffsetWrapped(idx, batch_size)
                  IN  batches' = [batches EXCEPT ![idx].pc = "running",
                                    ![idx].handed = TRUE,
                                    ![idx].b_start = bs,
                                    ![idx].b_end = BatchEnd(bs, batch_size, end),
                                    ![idx].current = bs]
            \* ... and panics with overflow checks
            \/ /\ BatchOffsetOverflows(idx, batch_size)
               /\ batches' = [batches EXCEPT ![idx].pc = "fault", ![idx].res = Fault]
    /\ UNCHANGED <<mode, start, end, targets, pc, result, found, keys_checked, batch_size, walkVars, allocVars, benchVars, planVars>>

\* find_map_first has recorded a match at a lower index: the item is dropped
BatchSkip(idx) ==
    /\ mode = "seq" /\ pc = "run"
    /\ batches[idx].pc = "pending"
    /\ BetterFound(idx)
    /\ batches' = [batches EXCEPT ![idx].pc = "skipped"]
    /\ UNCHANGED <<mode, start, end, targets, pc, result, found, keys_checked, batch_size, walkVars, allocVars, benchVars, planVars>>

\* a loop that also ends at a candidate the oracle rejects
BatchGoesOnUntilFailure(b) == b.current <= b.b_end /\ ~found /\ ~OracleFails(b.current)

\* a loop that does not look at the found flag
BatchGoesOnIgnoringFound(b) == b.current <= b.b_end

\* search_batch's loop condition, line 500
BatchGoesOn(b) == b.current <= b.b_end /\ ~found

\* one pass of search_batch's while loop, lines 500-518
BatchStep(idx) ==
    /\ mode = "seq" /\ pc = "run"
    /\ batches[idx].pc = "running"
    /\ BatchGoesOn(batches[idx])
    /\ LET b == batches[idx]
           kind == FirstTargetKind(b.current, targets)
           n == b.local_count + 1
       IN  IF kind # 0
           THEN /\ batches' = [batches EXCEPT ![idx].pc = "returned",
                                 ![idx].res = Match(b.current, Address(b.current, kind))]
                /\ UNCHANGED keys_checked
           ELSE IF n % SeqFlushEvery = 0
           THEN /\ batches' = [batches EXCEPT ![idx].current = b.current + 1,
                                 ![idx].local_count = 0]
                /\ keys_checked' = keys_checked + n
           ELSE /\ batches' = [batches EXCEPT ![idx].current = b.current + 1,
                                 ![idx].local_count = n]
                /\ UNCHANGED keys_checked
    /\ UNCHANGED <<mode, start, end, targets, pc, result, found, batch_size, walkVars, allocVars, benchVars, planVars>>

\* search_batch after its loop, lines 520-525
BatchExit(idx) ==
    /\ mode = "seq" /\ pc = "run"
    /\ batches[idx].pc = "running"
    /\ ~BatchGoesOn(batches[idx])
    /\ batches' = [batches EXCEPT ![idx].pc = "done", ![idx].res = NoMatch,
                     ![idx].local_count = 0]
    /\ keys_checked' = keys_checked + batches[idx].local_count
    /\ UNCHANGED <<mode, start, end, targets, pc, result, found, batch_size, walkVars, allocVars, benchVars, planVars>>

\* the find_map_first closure on Ok(Some(..)), lines 475-478
BatchFound(idx) ==
    /\ mode = "seq" /\ pc = "run"
    /\ batches[idx].pc = "returned"
    /\ found' = TRUE
    /\ batches' = [batches EXCEPT ![idx].pc = "done"]
    /\ UNCHANGED <<mode, start, end, targets, pc, result, keys_checked, batch_size, walkVars, allocVars, benchVars, planVars>>

BatchSettled(b) == b.pc \in {"done", "skipped", "fault"}

\* what find_map_first yields: the match of the lowest index, lines 483-486
FirstMatch(tasks) ==
    LET hits == {j \in DOMAIN tasks : tasks[j].res.kind = "match"}
    IN  IF hits = {} THEN NoMatch
        ELSE tasks[CHOOSE j \in hits : \A o \in hits : j <= o].res

\* the join of the parallel iterator and lines 483-486; a panic of a task is
\* resumed in the caller
SearchRangeReturn ==
    /\ mode = "seq" /\ pc = "run"
    /\ \A idx \in DOMAIN batches : BatchSettled(batches[idx])
    /\ IF \E idx \in DOMAIN batches : batches[idx].pc = "fault"
       THEN pc' = "fault" /\ result' = Fault
       ELSE pc' = "done" /\ result' = FirstMatch(batches)
    /\ UNCHANGED <<mode, start, end, targets, found, keys_checked, batch_size, batches, walkVars, allocVars, benchVars, planVars>>

NextSeq ==
    \/ SearchRangeEnter
    \/ \E idx \in DOMAIN batches : BatchStart(idx)
    \/ \E idx \in DOMAIN batches : BatchSkip(idx)
    \/ \E idx \in DOMAIN batches : BatchStep(idx)
    \/ \E idx \in DOMAIN batches : BatchExit(idx)
    \/ \E idx \in DOMAIN batches : BatchFound(idx)
    \/ SearchRangeReturn

SpecSeq == InitSeq /\ [][NextSeq]_vars

----------------------------------------------------------------------------
(* Adaptive Random-Walk Searcher, random_walk.rs adaptive_random_walk_search *)

\* the values the model draws from rng.gen_range(lo..hi)
Draws(lo, hi) == lo..Min(hi - 1, lo + DrawWidth - 1)

\* BigUint::from(rng.gen::<u64>()) % range_size, lines 33, 71, 124
PositionDraws(range_size) == {r % range_size : r \in 0..(Word - 1)}

\* line 39-42
step_variants == <<1, 2, 3, 5, 8, 13, 21, 34, 55, 89, 144, 233, 377, 610, 987, 1597>>

\* step_variants[rng.gen_range(0..step_variants.len())], lines 72, 125, 163
VariantDraws == {step_variants[j + 1] : j \in Draws(0, Len(step_variants))}

\* line 32: rng.gen_range(1u32..100u32)
InitStepLo == 1

InitStepHi == 100

\* line 166: rng.gen_range(1u32..20u32)
FactorLo == 1

FactorHi == 20

\* line 171: rng.gen_range(100u32..1000u32)
LongJumpLo == 100

LongJumpHi == 1000

\* line 134: rng.gen_range(2u32..10u32)
BoostLo == 2

BoostHi == 10

\* line 122: the budget is cut in ReseedFractions parts
ReseedFractions == 8

\* line 108: the visited set is cleared when total_adaptations % 4 == 0
ClearEvery == 4

\* line 195: walk_id * 200
AdaptOffset == 200

\* a backward move that wraps around without reducing the step
MoveBackwardUnreducedStep(position, step_size, range_size) ==
    IF step_size <= position
    THEN position - step_size
    ELSE range_size - (step_size - position)

\* lines 52-62: the backward move
MoveBackward(position, step_size, range_size) ==
    IF step_size <= position
    THEN position - step_size
    ELSE LET step_mod == step_size % range_size
         IN  IF step_mod <= position
             THEN position - step_mod
             ELSE range_size - (step_mod - position)

\* lines 52-62: the <<minuend, subtrahend>> of every subtraction the backward
\* move evaluates
BackwardSubtractions(position, step_size, range_size) ==
    IF step_size <= position
    THEN {<<position, step_size>>}
    ELSE LET step_mod == step_size % range_size
         IN  IF step_mod <= position
             THEN {<<position, step_mod>>}
             ELSE {<<step_mod, position>>, <<range_size, step_mod - position>>}

\* a move that is not reduced modulo the range size
MoveUnreduced(position, step_size, range_size, direction) ==
    IF direction > 0 THEN position + step_size
    ELSE IF step_size <= position THEN position - step_size ELSE position

\* lines 49-63: the move on the ring, direction 1 forward, -1 backward
Move(position, step_size, range_size, direction) ==
    IF direction > 0
    THEN (position + step_size) % range_size
    ELSE MoveBackward(position, step_size, range_size)

\* lines 157-173 adapt_random_walk: the step sizes it can leave
AdaptedSteps ==
    LET plain == {base * f : base \in VariantDraws, f \in Draws(FactorLo, FactorHi)}
    IN  plain \cup {s * m : s \in plain, m \in Draws(LongJumpLo, LongJumpHi)}

IdleWalk(adapt) ==
    [pc |-> "pending", i |-> 0, position |-> 0, step_size |-> 0, seen |-> {},
     iterations_since_adapt |-> 0, total_adaptations |-> 0, local_count |-> 0,
     adapt |-> adapt, res |-> Pending,
     \* history: the calls of the oracle and the cycle resets the walk has made
     oracle_calls |-> 0, cycle_resets |-> 0]

\* the walk returns or unwinds and its locals go out of scope; the record
\* keeps i, and for a match the position and local_count of the matching pass
Ended(w, pcv, res) ==
    [w EXCEPT !.pc = pcv, !.res = res, !.step_size = 0, !.seen = {},
              !.iterations_since_adapt = 0, !.total_adaptations = 0,
              !.position = IF res.kind = "match" THEN w.position ELSE 0,
              !.local_count = IF res.kind = "match" THEN w.local_count ELSE 0]

\* a cycle reset that keeps the visited set
CycleResetKeepsSeen(w, p, v) ==
    [w EXCEPT !.position = p, !.step_size = v,
              !.total_adaptations = w.total_adaptations + 1,
              !.iterations_since_adapt = 0,
              !.cycle_resets = w.cycle_resets + 1,
              !.i = w.i + 1]

\* lines 69-76: the cycle reset, then `continue`
CycleReset(w, p, v) ==
    [w EXCEPT !.position = p, !.step_size = v, !.seen = {},
              !.total_adaptations = w.total_adaptations + 1,
              !.iterations_since_adapt = 0,
              !.cycle_resets = w.cycle_resets + 1,
              !.i = w.i + 1]

\* a flush that counts the candidate of the pass twice
WalkFlushCountsTwice(n) == IF (n + 1) % WalkFlushEvery = 0 THEN n + 2 ELSE 0

\* lines 93-101: what the pass adds to keys_checked when local_count was n
WalkFlush(n) == IF (n + 1) % WalkFlushEvery = 0 THEN n + 1 ELSE 0

\* lines 89-101: the counts; a flush resets local_count
Counted(w) ==
    [w EXCEPT !.iterations_since_adapt = w.iterations_since_adapt + 1,
              !.local_count = IF WalkFlush(w.local_count) > 0 THEN 0
                              ELSE w.local_count + 1]

\* an adaptation that never clears the visited set
ClearedSeenNever(w) == w.seen

\* lines 108-110: the visited set after the adaptation's clear
ClearedSeen(w) == IF w.total_adaptations % ClearEvery = 0 THEN {} ELSE w.seen

\* an adaptation whose jitter is not reduced modulo the range size
AdaptedUnreduced(w, range_size) ==
    IF w.iterations_since_adapt >= w.adapt
    THEN {[w EXCEPT !.step_size = s,
                    !.seen = ClearedSeen(w),
                    !.position = p,
                    !.iterations_since_adapt = 0,
                    !.total_adaptations = w.total_adaptations + 1]
            : s \in AdaptedSteps,
              p \in {w.position} \cup {w.position + r : r \in 0..(Word - 1)}}
    ELSE {w}

\* lines 104-119: the periodic adaptation, every outcome of its draws
Adapted(w, range_size) ==
    IF w.iterations_since_adapt >= w.adapt
    THEN {[w EXCEPT !.step_size = s,
                    !.seen = ClearedSeen(w),
                    !.position = p,
                    !.iterations_since_adapt = 0,
                    !.total_adaptations = w.total_adaptations + 1]
            : s \in AdaptedSteps,
              p \in {w.position} \cup {(w.position + r) % range_size : r \in 0..(Word - 1)}}
    ELSE {w}

\* line 122: i % (max_iter / 8) divides by zero when max_iter < 8
ReseedFaults(i, budget) == i > 0 /\ budget \div ReseedFractions = 0

\* lines 122-128: the forced reseed, every outcome of its draws
Reseeded(w, range_size, budget) ==
    IF w.i > 0 /\ w.i % (budget \div ReseedFractions) = 0
    THEN {w} \cup {[w EXCEPT !.position = p, !.step_size = v, !.seen = {}]
                     : p \in PositionDraws(range_size), v \in VariantDraws}
    ELSE {w}

\* a boost that keeps a product that is a multiple of the range size
BoostedUnfloored(w, range_size) ==
    IF w.i % WalkBoostEvery = 0 /\ w.i > 0
    THEN {w} \cup {[w EXCEPT !.step_size = (w.step_size * m) % range_size]
                     : m \in Draws(BoostLo, BoostHi)}
    ELSE {w}

\* lines 131-140: the step size boost, every outcome of its draws
Boosted(w, range_size) ==
    IF w.i % WalkBoostEvery = 0 /\ w.i > 0
    THEN {w} \cup {[w EXCEPT !.step_size =
                        IF (w.step_size * m) % range_size = 0 THEN 1
                        ELSE (w.step_size * m) % range_size]
                     : m \in Draws(BoostLo, BoostHi)}
    ELSE {w}

\* find_map_first has recorded the match of a walk of lower index
BetterWalk(id) ==
    \E j \in DOMAIN walks : j < id /\ walks[j].pc = "done" /\ walks[j].res.kind = "match"


\* the budgets a single walk is given: those up to the first that the reseed
\* check of line 122 divides without a zero divisor, and the largest
WalkBudgets == 0..ReseedFractions \cup {MaxIter}

InitWalk ==
    /\ mode = "walk"
    /\ \E r \in WalkRanges : start = r[1] /\ end = r[2]
    /\ targets \in TargetsFor(start, end)
    /\ max_iter \in WalkBudgets
    /\ adapt_interval \in AdaptIntervals
    /\ num_walks = 1
    /\ walks = [id \in {0} |-> IdleWalk(adapt_interval)]
    /\ pc = "run"
    /\ result = Pending
    /\ found = FALSE
    /\ keys_checked = 0
    /\ batch_size = 0 /\ batches = <<>>
    /\ AllocIdle /\ BenchIdle /\ PlanIdle

\* lines 22-36: the range size and the initial draws.
\* `end_range - start_range` on BigUint panics when start > end.
WalkEnter(id) ==
    /\ mode \in {"walk", "par"} /\ pc = "run"
    /\ id \in DOMAIN walks
    /\ walks[id].pc = "pending"
    /\ ~BetterWalk(id)
    /\ ThreadFree(walks)
    /\ IF start > end
       THEN walks' = [walks EXCEPT ![id].pc = "fault", ![id].res = Fault]
       ELSE \E s \in Draws(InitStepLo, InitStepHi), p \in PositionDraws(end - start + 1) :
              walks' = [walks EXCEPT ![id].pc = "running",
                                     ![id].step_size = s,
                                     ![id].position = p]
    /\ UNCHANGED <<mode, start, end, targets, pc, result, found, keys_checked,
                   seqVars, max_iter, adapt_interval, num_walks, allocVars, benchVars, planVars>>

\* lines 104-140 for a walk whose candidate did not match: the adaptation, the
\* reseed check (which can divide by zero) and the boost, then the next i
AfterTest(w2, range_size, budget) ==
    UNION {IF ReseedFaults(w3.i, budget)
           THEN {Ended(w3, "fault", Fault)}
           ELSE UNION {{[w5 EXCEPT !.i = w5.i + 1] : w5 \in Boosted(w4, range_size)}
                         : w4 \in Reseeded(w3, range_size, budget)}
             : w3 \in Adapted(w2, range_size)}

\* a visited set that never reports a position as present
RevisitsNever(position, seen) == FALSE

\* line 69: !seen.insert(position), the position is already in the set
Revisits(position, seen) == position \in seen

\* one pass of the for loop, lines 44-141, for one direction: every
\* <<walk state, addition to keys_checked>> the draws of the pass can leave
PassOutcomes(w0, direction, range_size, budget) ==
    LET w1 == [w0 EXCEPT !.position = Move(w0.position, w0.step_size, range_size, direction)]
        private_key == start + w1.position
        kind == FirstTargetKind(private_key, targets)
        tested == [w1 EXCEPT !.oracle_calls = w1.oracle_calls + 1]
        marked == [tested EXCEPT !.seen = w1.seen \cup {w1.position}]
    IN  IF Revisits(w1.position, w0.seen)
        THEN {<<CycleReset(w1, p, v), 0>> :
                 p \in PositionDraws(range_size), v \in VariantDraws}
        ELSE IF kind # 0
        THEN {<<Ended(tested, "done", Match(private_key, Address(private_key, kind))), 0>>}
        ELSE {<<w, WalkFlush(w0.local_count)>> :
                 w \in AfterTest(Counted(marked), range_size, budget)}

\* one pass of the for loop, lines 44-141
WalkIter(id) ==
    /\ mode \in {"walk", "par"} /\ pc = "run"
    /\ id \in DOMAIN walks
    /\ walks[id].pc = "running"
    /\ walks[id].i < max_iter
    /\ \E out \in PassOutcomes(walks[id], 1, end - start + 1, max_iter)
                   \cup PassOutcomes(walks[id], -1, end - start + 1, max_iter) :
          /\ walks' = [walks EXCEPT ![id] = out[1]]
          /\ keys_checked' = keys_checked + out[2]
    /\ UNCHANGED <<mode, start, end, targets, pc, result, found,
                   seqVars, max_iter, adapt_interval, num_walks, allocVars, benchVars, planVars>>

\* after the loop, lines 143-153
WalkExit(id) ==
    /\ mode \in {"walk", "par"} /\ pc = "run"
    /\ id \in DOMAIN walks
    /\ walks[id].pc = "running"
    /\ walks[id].i >= max_iter
    /\ walks' = [walks EXCEPT ![id] = Ended(@, "done", NoMatch)]
    /\ keys_checked' = keys_checked + walks[id].local_count
    /\ UNCHANGED <<mode, start, end, targets, pc, result, found,
                   seqVars, max_iter, adapt_interval, num_walks, allocVars, benchVars, planVars>>

NextWalk ==
    \/ mode = "walk" /\ WalkEnter(0)
    \/ mode = "walk" /\ WalkIter(0)
    \/ mode = "walk" /\ WalkExit(0)

SpecWalk == InitWalk /\ [][NextWalk]_vars

\* a single walk without targets on a wide range, adapting at every pass
InitWalkWide ==
    /\ mode = "walk"
    /\ start = MaxStart /\ end = MaxStart + MaxWideSize - 1
    /\ targets = {}
    /\ max_iter = ReseedFractions
    /\ adapt_interval = 0
    /\ num_walks = 1
    /\ walks = [id \in {0} |-> IdleWalk(adapt_interval)]
    /\ pc = "run"
    /\ result = Pending
    /\ found = FALSE
    /\ keys_checked = 0
    /\ batch_size = 0 /\ batches = <<>>
    /\ AllocIdle /\ BenchIdle /\ PlanIdle

SpecWalkWide == InitWalkWide /\ [][NextWalk]_vars

\* the ring arithmetic of lines 48-63 on its own: a walk state with any ring,
\* position and step
InitMove ==
    /\ mode = "move"
    /\ start \in {0, MaxStart}
    /\ \E range_size \in 1..MaxRing :
          /\ end = start + range_size - 1
          /\ \E p \in 0..(range_size - 1), s \in 1..MaxStep :
                walks = [id \in {0} |-> [IdleWalk(0) EXCEPT !.pc = "running",
                                                             !.position = p,
                                                             !.step_size = s]]
    /\ targets = {}
    /\ max_iter = MaxMoves
    /\ adapt_interval = 0
    /\ num_walks = 1
    /\ pc = "run"
    /\ result = Pending
    /\ found = FALSE
    /\ keys_checked = 0
    /\ batch_size = 0 /\ batches = <<>>
    /\ AllocIdle /\ BenchIdle /\ PlanIdle

\* lines 48-63: the step applied in one direction
MoveApply(direction) ==
    /\ mode = "move"
    /\ walks[0].i < max_iter
    /\ walks' = [walks EXCEPT ![0].position =
                    Move(walks[0].position, walks[0].step_size, end - start + 1, direction),
                              ![0].i = walks[0].i + 1]
    /\ UNCHANGED <<mode, start, end, targets, pc, result, found, keys_checked,
                   seqVars, max_iter, adapt_interval, num_walks, allocVars, benchVars, planVars>>

NextMove ==
    \/ MoveApply(1)
    \/ MoveApply(-1)

SpecMove == InitMove /\ [][NextMove]_vars

----------------------------------------------------------------------------
(* Parallel Walk Orchestrator, random_walk.rs                               *)
(* parallel_adaptive_random_walk_search_with_progress                       *)

\* the budgets the orchestrator's walks are given: no pass, one pass, the largest
ParBudgets == {0, 1, MaxParIter}

InitPar ==
    /\ mode = "par"
    /\ \E r \in WalkRanges : start = r[1] /\ end = r[2]
    /\ targets \in TargetsFor(start, end)
    /\ max_iter \in ParBudgets
    /\ adapt_interval \in AdaptIntervals
    /\ num_walks \in 0..MaxWalks
    /\ walks = <<>>
    /\ pc = "call"
    /\ result = Pending
    /\ found = FALSE
    /\ keys_checked = 0
    /\ batch_size = 0 /\ batches = <<>>
    /\ AllocIdle /\ BenchIdle /\ PlanIdle

\* line 195: adapt_interval + (walk_id * 200)
VariedAdaptInterval(adapt, walk_id) == adapt + walk_id * AdaptOffset

\* lines 191-205: the parallel map over 0..num_walks
OrchEnter ==
    /\ mode = "par" /\ pc = "call"
    /\ pc' = "run"
    /\ walks' = [id \in 0..(num_walks - 1) |->
                    IdleWalk(VariedAdaptInterval(adapt_interval, id))]
    /\ UNCHANGED <<mode, start, end, targets, result, found, keys_checked,
                   seqVars, max_iter, adapt_interval, num_walks, allocVars, benchVars, planVars>>

\* find_map_first has recorded a match at a lower index: the walk is dropped
WalkSkip(id) ==
    /\ mode = "par" /\ pc = "run"
    /\ walks[id].pc = "pending"
    /\ BetterWalk(id)
    /\ walks' = [walks EXCEPT ![id].pc = "skipped"]
    /\ UNCHANGED <<mode, start, end, targets, pc, result, found, keys_checked,
                   seqVars, max_iter, adapt_interval, num_walks, allocVars, benchVars, planVars>>

\* lines 206-215: find_map_first joins the walks and yields the first match; a
\* panic of a walk is resumed in the caller
OrchReturn ==
    /\ mode = "par" /\ pc = "run"
    /\ \A id \in DOMAIN walks : BatchSettled(walks[id])
    /\ IF \E id \in DOMAIN walks : walks[id].pc = "fault"
       THEN pc' = "fault" /\ result' = Fault
       ELSE pc' = "done" /\ result' = FirstMatch(walks)
    /\ UNCHANGED <<mode, start, end, targets, found, keys_checked,
                   seqVars, walkVars, allocVars, benchVars, planVars>>

NextPar ==
    \/ OrchEnter
    \/ mode = "par" /\ \E id \in DOMAIN walks : WalkEnter(id)
    \/ \E id \in DOMAIN walks : WalkSkip(id)
    \/ mode = "par" /\ \E id \in DOMAIN walks : WalkIter(id)
    \/ mode = "par" /\ \E id \in DOMAIN walks : WalkExit(id)
    \/ OrchReturn

SpecPar == InitPar /\ [][NextPar]_vars

\* the sequential searcher and the single walk
SpecScan == (InitSeq \/ InitWalk) /\ [][NextSeq \/ NextWalk]_vars

\* the three search operations
SpecSearch == (InitSeq \/ InitWalk \/ InitPar) /\ [][NextSeq \/ NextWalk \/ NextPar]_vars

----------------------------------------------------------------------------
(* Worker Allocator, lib.rs distribute_range_to_workers *)

\* the worker lists of the model: hashes_per_second is a u64
WorkerLists == UNION {[1..n -> 0..UsizeMax] : n \in 0..MaxWorkers}

\* target_time_minutes * 60.0 as a fraction; the model's f64 is exact
TargetTimes ==
    {<<n, 1>> : n \in (-1)..MaxTime} \cup {<<n, 2>> : n \in {m \in 1..MaxTime : m % 2 = 1}}

\* line 48: (hashes_per_second as f64 * target_time_minutes * 60.0) as u64;
\* the cast truncates and saturates: below 0 gives 0, above u64::MAX gives it
KeysInTargetTime(hps, t) ==
    IF hps * t[1] <= 0 THEN 0
    ELSE Min((hps * t[1]) \div t[2], UsizeMax)

\* lines 52-55: min(current_position + keys - 1, range_end)
WorkerEnd(position, keys, range_end) == Min(position + keys - 1, range_end)

\* lines 58-62: the size as a u64, capped
RangeSizeU64(size) == IF size < Word THEN size ELSE UsizeMax

\* lines 65-72
WorkerRange(name, hps, position, worker_end) ==
    [worker_name |-> name,
     hashes_per_second |-> hps,
     start_hex |-> FormatHex(position),
     end_hex |-> FormatHex(worker_end),
     range_size |-> RangeSizeU64(worker_end - position + 1),
     estimated_time_minutes |-> <<RangeSizeU64(worker_end - position + 1), hps * 60>>]

InitAlloc ==
    /\ mode = "alloc"
    /\ \E r \in Ranges : start = r[1] /\ end = r[2]
    /\ workers \in WorkerLists
    /\ target_time \in TargetTimes
    /\ widx = 0 /\ current_position = 0 /\ worker_ranges = <<>> /\ remaining_range = <<>>
    /\ pc = "call"
    /\ result = Pending
    /\ targets = {} /\ found = FALSE /\ keys_checked = 0
    /\ batch_size = 0 /\ batches = <<>>
    /\ max_iter = 0 /\ adapt_interval = 0 /\ num_walks = 0 /\ walks = <<>>
    /\ BenchIdle /\ PlanIdle

\* the range size is computed before the worker list is looked at
AllocEnterRangeFirst ==
    /\ mode = "alloc" /\ pc = "call"
    /\ IF start > end
       THEN pc' = "fault" /\ UNCHANGED <<widx, current_position>>
       ELSE IF Len(workers) = 0
       THEN pc' = "error" /\ UNCHANGED <<widx, current_position>>
       ELSE pc' = "loop" /\ widx' = 1 /\ current_position' = start
    /\ UNCHANGED <<mode, start, end, targets, result, found, keys_checked, seqVars,
                   walkVars, benchVars, planVars, workers, target_time, worker_ranges,
                   remaining_range>>

\* lines 34-40: the empty list is an error; `range_end - range_start` on BigUint
\* panics when start > end
AllocEnter ==
    /\ mode = "alloc" /\ pc = "call"
    /\ IF Len(workers) = 0
       THEN pc' = "error" /\ UNCHANGED <<widx, current_position>>
       ELSE IF start > end
       THEN pc' = "fault" /\ UNCHANGED <<widx, current_position>>
       ELSE pc' = "loop" /\ widx' = 1 /\ current_position' = start
    /\ UNCHANGED <<mode, start, end, targets, result, found, keys_checked, seqVars,
                   walkVars, benchVars, planVars, workers, target_time, worker_ranges, remaining_range>>

\* one pass of the for loop, lines 42-78, for a worker the cursor has not passed.
\* With keys_in_target_time = 0 the BigUint subtractions of lines 53 and 57 panic.
AllocWorker ==
    /\ mode = "alloc" /\ pc = "loop"
    /\ widx <= Len(workers)
    /\ current_position <= end
    /\ LET hps == workers[widx]
           keys == KeysInTargetTime(hps, target_time)
           worker_end == WorkerEnd(current_position, keys, end)
       IN  IF current_position + keys < 1 \/ worker_end < current_position
           THEN /\ pc' = "fault"
                /\ UNCHANGED <<widx, current_position, worker_ranges>>
           ELSE /\ worker_ranges' = Append(worker_ranges,
                                      WorkerRange(widx, hps, current_position, worker_end))
                /\ current_position' = worker_end + 1
                /\ widx' = widx + 1
                /\ UNCHANGED pc
    /\ UNCHANGED <<mode, start, end, targets, result, found, keys_checked, seqVars,
                   walkVars, benchVars, planVars, workers, target_time, remaining_range>>

\* lines 81-88: Some((start_hex, end_hex)) of what is left, <<>> for None
RemainingRange(position, range_end) ==
    IF position <= range_end THEN <<FormatHex(position), FormatHex(range_end)>> ELSE <<>>

\* the loop ends or breaks (lines 43-45), then lines 80-90
AllocReturn ==
    /\ mode = "alloc" /\ pc = "loop"
    /\ widx > Len(workers) \/ current_position > end
    /\ remaining_range' = RemainingRange(current_position, end)
    /\ pc' = "done"
    /\ UNCHANGED <<mode, start, end, targets, result, found, keys_checked, seqVars,
                   walkVars, benchVars, planVars, workers, target_time, widx, current_position, worker_ranges>>

NextAlloc ==
    \/ AllocEnter
    \/ AllocWorker
    \/ AllocReturn

SpecAlloc == InitAlloc /\ [][NextAlloc]_vars

----------------------------------------------------------------------------
(* Benchmark Estimator, lib.rs benchmark_hashes_per_second *)

IdleThread(thread_id) ==
    [pc |-> "running", local_count |-> 0,
     current_key |-> BenchBase + thread_id * BenchStride]

InitBench ==
    /\ mode = "bench"
    /\ benchmark_duration_seconds \in 0..MaxDuration
    /\ thread_count \in 0..MaxThreads
    /\ elapsed = 0
    /\ handles = <<>>
    /\ total_keys_tested = 0
    /\ pc = "call"
    /\ result = Pending
    /\ start = 0 /\ end = 0 /\ targets = {} /\ found = FALSE /\ keys_checked = 0
    /\ batch_size = 0 /\ batches = <<>>
    /\ max_iter = 0 /\ adapt_interval = 0 /\ num_walks = 0 /\ walks = <<>>
    /\ AllocIdle /\ PlanIdle

\* lines 156-205: start_time is taken and the threads are spawned
BenchEnter ==
    /\ mode = "bench" /\ pc = "call"
    /\ pc' = "run"
    /\ handles' = [thread_id \in 0..(thread_count - 1) |-> IdleThread(thread_id)]
    /\ UNCHANGED <<mode, start, end, targets, result, found, keys_checked, seqVars,
                   walkVars, allocVars, benchmark_duration_seconds, thread_count,
                   elapsed, total_keys_tested, planVars>>

\* the wall clock moves on by a second; it is read until the join
BenchTick ==
    /\ mode = "bench" /\ pc = "run"
    /\ elapsed <= benchmark_duration_seconds
    /\ elapsed' = elapsed + 1
    /\ UNCHANGED <<mode, start, end, targets, pc, result, found, keys_checked, seqVars,
                   walkVars, allocVars, benchmark_duration_seconds, thread_count,
                   handles, total_keys_tested, planVars>>

\* line 179: the time is not up
BenchGoesOn == elapsed < benchmark_duration_seconds

\* one pass of a thread's loop, lines 177-197: the candidate counts when the
\* oracle accepts it, and a local count that is a multiple of the flush period
\* (0 included) adds the period to the shared total
BenchIter(thread_id) ==
    /\ mode = "bench" /\ pc = "run"
    /\ handles[thread_id].pc = "running"
    /\ BenchGoesOn
    /\ handles[thread_id].current_key - IdleThread(thread_id).current_key < MaxBenchKeys
    /\ LET t == handles[thread_id]
           n == IF OracleFails(t.current_key) THEN t.local_count ELSE t.local_count + 1
       IN  IF n % BenchFlushEvery = 0
           THEN /\ total_keys_tested' = total_keys_tested + BenchFlushEvery
                /\ handles' = [handles EXCEPT ![thread_id].current_key = t.current_key + 1,
                                              ![thread_id].local_count = 0]
           ELSE /\ handles' = [handles EXCEPT ![thread_id].current_key = t.current_key + 1,
                                              ![thread_id].local_count = n]
                /\ UNCHANGED total_keys_tested
    /\ UNCHANGED <<mode, start, end, targets, pc, result, found, keys_checked, seqVars,
                   walkVars, allocVars, benchmark_duration_seconds, thread_count,
                   elapsed, planVars>>

\* a thread that leaves its loop without adding its remaining count
BenchBreakDropsRest(thread_id) ==
    /\ mode = "bench" /\ pc = "run"
    /\ handles[thread_id].pc = "running"
    /\ ~BenchGoesOn
    /\ handles' = [handles EXCEPT ![thread_id].pc = "done"]
    /\ UNCHANGED <<mode, start, end, targets, pc, result, found, keys_checked, seqVars,
                   walkVars, allocVars, benchmark_duration_seconds, thread_count,
                   elapsed, total_keys_tested, planVars>>

\* the thread leaves its loop, lines 179-181 and 199-202
BenchBreak(thread_id) ==
    /\ mode = "bench" /\ pc = "run"
    /\ handles[thread_id].pc = "running"
    /\ ~BenchGoesOn
    /\ total_keys_tested' = total_keys_tested + handles[thread_id].local_count
    /\ handles' = [handles EXCEPT ![thread_id].pc = "done"]
    /\ UNCHANGED <<mode, start, end, targets, pc, result, found, keys_checked, seqVars,
                   walkVars, allocVars, benchmark_duration_seconds, thread_count,
                   elapsed, planVars>>

\* line 214: (total_keys as f64 / actual_duration.as_secs_f64()) as u64; the
\* cast turns 0.0 / 0.0 into 0 and a division of a positive total by 0.0 into
\* u64::MAX
Throughput(total_keys, secs) ==
    IF secs = 0 THEN (IF total_keys = 0 THEN 0 ELSE UsizeMax)
    ELSE total_keys \div secs

\* Ok(hashes_per_second)
Measured(hps) == [kind |-> "ok", value |-> hps]

\* lines 207-221: the join, then the throughput
BenchReturn ==
    /\ mode = "bench" /\ pc = "run"
    /\ \A thread_id \in DOMAIN handles : handles[thread_id].pc = "done"
    /\ pc' = "done"
    /\ result' = Measured(Throughput(total_keys_tested, elapsed))
    /\ UNCHANGED <<mode, start, end, targets, found, keys_checked, seqVars,
                   walkVars, allocVars, benchVars, planVars>>

NextBench ==
    \/ BenchEnter
    \/ BenchTick
    \/ \E thread_id \in DOMAIN handles : BenchIter(thread_id)
    \/ \E thread_id \in DOMAIN handles : BenchBreak(thread_id)
    \/ BenchReturn

SpecBench == InitBench /\ [][NextBench]_vars

\* the benchmark with its scheduling: the wall clock moves on, the caller and
\* every spawned thread are OS threads that get to run
SpecBenchFair ==
    /\ SpecBench
    /\ WF_vars(BenchEnter)
    /\ WF_vars(BenchTick)
    /\ \A thread_id \in 0..(MaxThreads - 1) :
          WF_vars(thread_id \in DOMAIN handles /\ BenchBreak(thread_id))
    /\ WF_vars(BenchReturn)

----------------------------------------------------------------------------
(* Parameter Planner, lib.rs calculate_walk_parameters *)

\* usize::MAX, u64::MAX of the planner
PlanUsizeMax == Pow2(PlanWordBits) - 1

\* the arms of the match, lines 258-294: the largest throughput of the arm (the
\* last arm is the wildcard), the seconds' worth of iterations, the least walk
\* count, the throughput per walk, and the divisor of the adapt interval
Tiers ==
    << [upto |-> 10000,  seconds |-> 60, least |-> 2,  per_walk |-> 5000,   adapt_div |-> 10],
       [upto |-> 50000,  seconds |-> 30, least |-> 4,  per_walk |-> 10000,  adapt_div |-> 20],
       [upto |-> 200000, seconds |-> 15, least |-> 6,  per_walk |-> 25000,  adapt_div |-> 30],
       [upto |-> 500000, seconds |-> 10, least |-> 8,  per_walk |-> 50000,  adapt_div |-> 50],
       [upto |-> PlanUsizeMax, seconds |-> 5, least |-> 12, per_walk |-> 100000, adapt_div |-> 100] >>

\* the arm the match takes
TierOf(hps) == CHOOSE t \in 1..Len(Tiers) :
                  /\ hps <= Tiers[t].upto
                  /\ \A o \in 1..(t - 1) : hps > Tiers[o].upto

\* a cast that wraps instead
AsUsizeWrapping(x) == x % (PlanUsizeMax + 1)

\* `x as usize` of a non-negative f64: saturates at usize::MAX
AsUsize(x) == Min(x, PlanUsizeMax)

\* line 297
MinIterations == 1000

\* line 298
MinWalkCount == 2

MaxWalkCount == 32

\* line 299
MinAdaptInterval == 100

\* lines 258-294: (iterations, walks, adapt) of the arm
Unclamped(hps) ==
    LET tier == Tiers[TierOf(hps)]
        iterations == AsUsize(hps * tier.seconds)
    IN  <<iterations, Max(tier.least, hps \div tier.per_walk), iterations \div tier.adapt_div>>

\* a final clamp that does not cap the walk count
FinalClampUncapped(raw) ==
    LET walk_iterations == Max(raw[1], MinIterations)
    IN  <<walk_iterations,
          Max(raw[2], MinWalkCount),
          Min(Max(raw[3], MinAdaptInterval), walk_iterations \div 2)>>

\* lines 296-301: the minimum values and the caps
FinalClamp(raw) ==
    LET walk_iterations == Max(raw[1], MinIterations)
    IN  <<walk_iterations,
          Min(Max(raw[2], MinWalkCount), MaxWalkCount),
          Min(Max(raw[3], MinAdaptInterval), walk_iterations \div 2)>>

\* a planner whose walk count falls as the throughput rises
WalksFalling(hps) ==
    LET own == FinalClamp(Unclamped(hps))
    IN  <<own[1], MaxWalkCount + MinWalkCount - own[2], own[3]>>

calculate_walk_parameters(hps) == FinalClamp(Unclamped(hps))

\* the throughputs the model calls the planner with: around the values at
\* which an arm, a minimum or a cap takes over, and up to u64::MAX
PlanInputs ==
    {0, 1, 2}
    \cup {at + d : at \in {17, 5000, 10000, 40000, 50000, 175000, 200000, 450000,
                          500000, 3200000},
                   d \in {-1, 0, 1}}
    \cup {PlanUsizeMax \div 5, PlanUsizeMax \div 5 + 1, PlanUsizeMax}

InitPlan ==
    /\ mode = "plan"
    /\ hashes_per_second \in PlanInputs \X PlanInputs
    /\ parameters = <<>>
    /\ pc = "run"
    /\ result = Pending
    /\ start = 0 /\ end = 0 /\ targets = {} /\ found = FALSE /\ keys_checked = 0
    /\ batch_size = 0 /\ batches = <<>>
    /\ max_iter = 0 /\ adapt_interval = 0 /\ num_walks = 0 /\ walks = <<>>
    /\ AllocIdle /\ BenchIdle

\* the next call of calculate_walk_parameters, lines 256-302
PlanCall ==
    /\ mode = "plan" /\ pc = "run"
    /\ parameters' = Append(parameters,
                        calculate_walk_parameters(hashes_per_second[Len(parameters) + 1]))
    /\ pc' = IF Len(parameters') = Len(hashes_per_second) THEN "done" ELSE "run"
    /\ UNCHANGED <<mode, start, end, targets, result, found, keys_checked, seqVars,
                   walkVars, allocVars, benchVars, hashes_per_second>>

NextPlan == PlanCall

SpecPlan == InitPlan /\ [][NextPlan]_vars

\* every operation of the engine
SpecAll ==
    /\ InitSeq \/ InitWalk \/ InitPar \/ InitAlloc \/ InitBench \/ InitPlan
    /\ [][NextSeq \/ NextWalk \/ NextPar \/ NextAlloc \/ NextBench \/ NextPlan]_vars

----------------------------------------------------------------------------
(* The claims *)

\* the batches search_range has handed to search_batch that cover key k
Covering(k) ==
    {idx \in DOMAIN batches :
        batches[idx].handed /\ batches[idx].b_start <= k /\ k <= batches[idx].b_end}

SeqAllHanded ==
    /\ mode = "seq" /\ pc \in {"run", "done"}
    /\ \A idx \in DOMAIN batches : batches[idx].handed

\* C1: once search_range has handed every batch index to search_batch, the
\* batches are ordered and contiguous, every key of [start, end] lies in exactly
\* one of them and none of them holds a key outside [start, end], also for
\* range sizes above a machine word.
C1_PartitionComplete ==
    SeqAllHanded =>
        /\ \A idx \in DOMAIN batches \ {0} :
              batches[idx].b_start = batches[idx - 1].b_end + 1
        /\ \A k \in start..end : Cardinality(Covering(k)) = 1
        /\ \A idx \in DOMAIN batches :
              \A k \in batches[idx].b_start..batches[idx].b_end : start <= k /\ k <= end

\* the pieces the allocator returned: the assignments in order, then the leftover
AllocPieces ==
    [i \in 1..Len(worker_ranges) |->
        <<HexValue(worker_ranges[i].start_hex), HexValue(worker_ranges[i].end_hex)>>]
    \o (IF remaining_range = <<>> THEN <<>>
        ELSE << <<HexValue(remaining_range[1]), HexValue(remaining_range[2])>> >>)

\* the pieces are non-empty, contiguous, and cover [lo, hi] exactly
ExactPartition(pieces, lo, hi) ==
    /\ Len(pieces) >= 1
    /\ pieces[1][1] = lo
    /\ pieces[Len(pieces)][2] = hi
    /\ \A i \in 1..Len(pieces) : pieces[i][1] <= pieces[i][2]
    /\ \A i \in 1..(Len(pieces) - 1) : pieces[i + 1][1] = pieces[i][2] + 1

AllocPositiveInput ==
    /\ mode = "alloc"
    /\ Len(workers) >= 1
    /\ \A i \in 1..Len(workers) : workers[i] > 0
    /\ start <= end
    /\ target_time[1] > 0

\* C2: for a non-empty worker list with positive throughputs, a Range with
\* start <= end and a target time above zero, distribute_range_to_workers does
\* not fault, and what it returns (assignments in worker order, then the
\* leftover) is non-empty pieces that are contiguous and cover the range exactly.
C2_AllocConservation ==
    AllocPositiveInput =>
        /\ pc \notin {"fault", "error"}
        /\ pc = "done" => ExactPartition(AllocPieces, start, end)

\* some key of the range derives an address of the TargetSet
SomeTargetKey == \E k \in start..end : FirstTargetKind(k, targets) # 0

\* search_batch went through all of its candidates
ScannedAll(b) == b.handed /\ b.pc = "done" /\ b.res = NoMatch /\ b.current > b.b_end

\* the found flag is up and a batch returned a match
FlagByRealMatch == found /\ \E j \in DOMAIN batches : batches[j].res.kind = "match"

\* C3: search_range returns "no match" only when every batch scanned all of its
\* candidates or yielded to a found flag that a real match set; so when a key of
\* [start, end] derives a target address, it returns a match.
C3_SeqComplete ==
    (mode = "seq" /\ pc = "done") =>
        /\ result = NoMatch =>
              \A idx \in DOMAIN batches : ScannedAll(batches[idx]) \/ FlagByRealMatch
        /\ SomeTargetKey => result.kind = "match"

\* a returned match names a key of the range on which the oracle succeeds, and
\* an address of that key that is a target
SoundMatch(r) ==
    r.kind = "match" =>
        \A k \in {HexValue(r.key)} :
            /\ start <= k /\ k <= end
            /\ ~OracleFails(k)
            /\ \E kind \in 1..AddressKinds : private_key_to_addresses(k)[kind] = r.addr
            /\ r.addr \in targets

\* C4: every match that search_range, search_batch, a walk or the orchestrator
\* returns is sound, and a walk's match is the key start + position of the pass
\* that matched.
C4_MatchSoundness ==
    /\ SoundMatch(result)
    /\ \A idx \in DOMAIN batches : SoundMatch(batches[idx].res)
    /\ \A id \in DOMAIN walks :
          /\ SoundMatch(walks[id].res)
          /\ walks[id].res.kind = "match" =>
                HexValue(walks[id].res.key) = start + walks[id].position

\* the orchestrator returned the match of a walk that moved off position 0
C4_Witness ==
    /\ mode = "par" /\ pc = "done" /\ result.kind = "match"
    /\ \E id \in DOMAIN walks : walks[id].res = result /\ walks[id].position > 0

\* C5: with an empty target set and any budget, a walk never faults, never runs
\* more passes than its budget, and what it returns is "no match".
C5_WalkLiveness ==
    (mode = "walk" /\ targets = {} /\ start <= end) =>
        /\ walks[0].pc # "fault"
        /\ walks[0].i <= max_iter
        /\ walks[0].pc = "done" => walks[0].res = NoMatch

\* a walk over the single key k = start, whose address is a target
SingleKeyWalk ==
    /\ mode = "walk" /\ start = end /\ max_iter >= 1
    /\ FirstTargetKind(start, targets) # 0

\* C6: a walk over [k, k] with a target address of k and a budget of at least 1
\* ends its first pass with a match on k: it never faults, never completes a pass
\* without returning, and returns nothing else.
C6_SingleKeyMatch ==
    SingleKeyWalk =>
        /\ walks[0].pc \in {"pending", "running", "done"}
        /\ walks[0].pc = "running" => walks[0].i = 0
        /\ walks[0].pc = "done" =>
              /\ walks[0].res.kind = "match"
              /\ HexValue(walks[0].res.key) = start
              /\ walks[0].i = 0

C6_Witness == SingleKeyWalk /\ walks[0].pc = "done" /\ walks[0].res.kind = "match"

WalkMatched(id) == walks[id].pc = "done" /\ walks[id].res.kind = "match"

\* what the orchestrator returns agrees with what its walks returned
AgreesWithWalks ==
    /\ result.kind = "match" <=> \E id \in DOMAIN walks : WalkMatched(id)
    /\ result.kind = "match" => \E id \in DOMAIN walks : walks[id].res = result
    /\ result.kind = "none" =>
          \A id \in DOMAIN walks :
             /\ walks[id].pc = "done" /\ walks[id].res = NoMatch
             /\ walks[id].i = max_iter

\* C7: once the orchestrator has ended, it has returned a match exactly when
\* some walk returned one, and then it is a match a walk returned; it has
\* returned "no match" only when every walk ran through its whole budget and
\* returned "no match".
C7_OrchResult == (mode = "par" /\ pc \in {"done", "fault"}) => AgreesWithWalks

\* the same for the runs in which no walk panics
OrchResultWithoutPanic == (mode = "par" /\ pc = "done") => AgreesWithWalks

\* another walk than id has returned a match
SomeWalkMatched(id) == \E j \in DOMAIN walks : j # id /\ WalkMatched(j)

\* walk id makes a pass and is left with a further pass to make
PassesOn(id) ==
    /\ walks[id].pc = "running" /\ walks'[id].pc = "running"
    /\ walks'[id].i = walks[id].i + 1
    /\ walks'[id].i < max_iter

\* C8: once a walk has returned a match, every other walk stops within one
\* check of the cancellation signal: a pass it then makes is its last.
C8_ShortCircuit ==
    [][mode = "par" =>
         \A id \in DOMAIN walks : SomeWalkMatched(id) => ~PassesOn(id)]_vars

\* floor(throughput * T * 60) for a positive target time
FloorBudget(hps, t) == (hps * t[1]) \div t[2]

\* the same, held in a u64
SaturatedBudget(hps, t) == Min(FloorBudget(hps, t), UsizeMax)

\* the cursor before the i-th assignment
CursorBefore(i) ==
    IF i = 1 THEN start ELSE HexValue(worker_ranges[i - 1].end_hex) + 1

\* the assignments follow the rule for the budgets Budget(throughput, T): the
\* i-th goes to the i-th worker and is [cursor, min(cursor + budget - 1, end)],
\* all but the last have size budget, and once the allocator has returned the
\* workers without an assignment are those after the cursor passed range.end
FollowsRule(Budget(_, _)) ==
    /\ Len(worker_ranges) <= Len(workers)
    /\ \A i \in 1..Len(worker_ranges) :
          LET a == worker_ranges[i]
              budget == Budget(workers[i], target_time)
          IN  /\ a.worker_name = i
              /\ a.hashes_per_second = workers[i]
              /\ CursorBefore(i) <= end
              /\ HexValue(a.start_hex) = CursorBefore(i)
              /\ HexValue(a.end_hex) = Min(CursorBefore(i) + budget - 1, end)
              /\ a.range_size = HexValue(a.end_hex) - CursorBefore(i) + 1
              /\ i < Len(worker_ranges) => a.range_size = budget
    /\ (pc = "done" /\ Len(worker_ranges) < Len(workers)) =>
          /\ Len(worker_ranges) >= 1
          /\ HexValue(worker_ranges[Len(worker_ranges)].end_hex) = end

AllocAssigning == mode = "alloc" /\ pc \in {"loop", "done"}

\* C9: in every plan the allocator builds, the assignments follow the rule with
\* budget = floor(throughput * T * 60).
C9_AssignmentRule == AllocAssigning => FollowsRule(FloorBudget)

\* the rule with the budget the u64 cast leaves
AssignmentRuleSaturated == AllocAssigning => FollowsRule(SaturatedBudget)

RECURSIVE FloorTotal(_)
FloorTotal(n) ==
    IF n = 0 THEN 0 ELSE FloorTotal(n - 1) + FloorBudget(workers[n], target_time)

RECURSIVE SaturatedTotal(_)
SaturatedTotal(n) ==
    IF n = 0 THEN 0 ELSE SaturatedTotal(n - 1) + SaturatedBudget(workers[n], target_time)

\* a returned plan has a leftover exactly when the budgets sum to `total` below
\* the range size, and the leftover is [start + total, end]
LeftoverRule(total) ==
    /\ remaining_range # <<>> <=> total < end - start + 1
    /\ remaining_range # <<>> =>
          /\ HexValue(remaining_range[1]) = start + total
          /\ HexValue(remaining_range[2]) = end

\* C10: a returned plan has a leftover if and only if the budgets
\* floor(throughput * T * 60) sum to less than the range size, and the leftover
\* is [cursor after the last worker, range.end].
C10_LeftoverRule ==
    (mode = "alloc" /\ pc = "done") => LeftoverRule(FloorTotal(Len(workers)))

\* the rule with the budgets the u64 cast leaves
LeftoverRuleSaturated ==
    (mode = "alloc" /\ pc = "done") => LeftoverRule(SaturatedTotal(Len(workers)))

\* the estimated minutes <<num, den>> of the i-th assignment are the size of
\* its subrange / (throughput * 60)
EstimateIsSizeOverRate(i) ==
    LET a == worker_ranges[i]
        est == a.estimated_time_minutes
    IN  /\ est[2] > 0
        /\ est[1] * (workers[i] * 60) =
              (HexValue(a.end_hex) - HexValue(a.start_hex) + 1) * est[2]

\* ... are at most the target T = target_time / 60 minutes
EstimateWithinTarget(i) ==
    LET est == worker_ranges[i].estimated_time_minutes
    IN  est[1] * target_time[2] * 60 <= target_time[1] * est[2]

\* ... are exactly T
EstimateIsTarget(i) ==
    LET est == worker_ranges[i].estimated_time_minutes
    IN  est[1] * target_time[2] * 60 = target_time[1] * est[2]

\* the i-th assignment is not clamped by range.end, and throughput * T * 60 is
\* an integer
WholeBudgetFits(i) ==
    /\ CursorBefore(i) + FloorBudget(workers[i], target_time) - 1 <= end
    /\ (workers[i] * target_time[1]) % target_time[2] = 0

\* C11: every assignment's estimated minutes are its size / (throughput * 60),
\* never above the target T, and equal to T when the assignment is not clamped
\* and throughput * T * 60 is an integer.
C11_EstimatedTime ==
    AllocAssigning =>
        \A i \in 1..Len(worker_ranges) :
            /\ EstimateIsSizeOverRate(i)
            /\ EstimateWithinTarget(i)
            /\ WholeBudgetFits(i) => EstimateIsTarget(i)

\* the same for the budgets a u64 holds
EstimatedTimeBelowSaturation ==
    AllocAssigning =>
        \A i \in 1..Len(worker_ranges) :
            /\ EstimateIsSizeOverRate(i)
            /\ EstimateWithinTarget(i)
            /\ (WholeBudgetFits(i) /\ FloorBudget(workers[i], target_time) <= UsizeMax)
                  => EstimateIsTarget(i)

\* the operation has faulted: a panic unwinds it
Faulted == pc = "fault" \/ \E id \in DOMAIN walks : walks[id].pc = "fault"

\* nothing was assigned, handed to a batch or passed to the oracle
NoWorkDone ==
    /\ worker_ranges = <<>> /\ remaining_range = <<>>
    /\ \A idx \in DOMAIN batches : ~batches[idx].handed
    /\ \A id \in DOMAIN walks : walks[id].i = 0
    /\ keys_checked = 0

\* C12: given a Range with start > end, the allocator, the sequential searcher
\* and the walk do not fault and do no work: they return an error value.
C12_InvalidRangeRejected ==
    (mode \in {"alloc", "seq", "walk"} /\ start > end) =>
        /\ ~Faulted
        /\ NoWorkDone
        /\ pc # "done"

\* C13: a benchmark of 0 seconds returns no throughput value, and the
\* allocator given a target time T <= 0 (with workers and a valid Range)
\* produces no assignment and does not fault: both reject the input.
C13_InvalidTimeRejected ==
    /\ (mode = "bench" /\ benchmark_duration_seconds = 0) =>
          /\ result.kind # "ok"
          /\ pc # "done"
    /\ (mode = "alloc" /\ target_time[1] <= 0 /\ Len(workers) >= 1 /\ start <= end) =>
          /\ pc \notin {"fault", "done"}
          /\ worker_ranges = <<>>

\* the part of C13 about the benchmark
BenchZeroDurationRejected ==
    (mode = "bench" /\ benchmark_duration_seconds = 0) => result.kind # "ok"

\* the part of C13 about the allocator
AllocBadTimeRejected ==
    (mode = "alloc" /\ target_time[1] <= 0 /\ Len(workers) >= 1 /\ start <= end) =>
        pc \notin {"fault", "done"}

\* ordinary walk parameters: (iterations, walk count, adapt interval)
OrdinaryParameters == Nat \X Nat \X Nat

\* the part of C14 about the planner
PlanZeroFlagged ==
    mode = "plan" =>
        \A j \in 1..Len(parameters) :
            hashes_per_second[j] = 0 => parameters[j] \notin OrdinaryParameters

\* the part of C14 about the allocator, for a valid Range and T > 0
AllocZeroFlagged ==
    (/\ mode = "alloc" /\ start <= end /\ target_time[1] > 0
     /\ \E i \in 1..Len(workers) : workers[i] = 0) =>
        /\ pc \notin {"fault", "done"}
        /\ \A i \in 1..Len(worker_ranges) : worker_ranges[i].range_size > 0

\* C14: a throughput of zero is rejected or flagged: calculate_walk_parameters(0)
\* returns no ordinary parameters, and distribute_range_to_workers given a
\* worker of throughput 0 returns no plan, makes no zero-length assignment and
\* does not fault.
C14_ZeroThroughputFlagged == PlanZeroFlagged /\ AllocZeroFlagged

\* C15: given an empty worker list, for every Range (start > end included) and
\* every target time, distribute_range_to_workers returns its error at once: it
\* never enters its loop, never faults, and makes no assignment and no leftover.
C15_EmptyWorkersError ==
    (mode = "alloc" /\ Len(workers) = 0) =>
        /\ pc \in {"call", "error"}
        /\ worker_ranges = <<>>
        /\ remaining_range = <<>>

\* the error was returned for an empty list, an invalid Range and a target
\* time that is not positive
C15_Witness ==
    /\ mode = "alloc" /\ Len(workers) = 0 /\ pc = "error"
    /\ start > end /\ target_time[1] <= 0

\* C16: whatever the throughput, calculate_walk_parameters returns
\* iterations >= 1000, 2 <= walk_count <= 32 and
\* 100 <= adapt_interval <= iterations / 2.
C16_PlannerClamp ==
    mode = "plan" =>
        \A j \in 1..Len(parameters) :
            /\ parameters[j][1] >= 1000
            /\ 2 <= parameters[j][2] /\ parameters[j][2] <= 32
            /\ 100 <= parameters[j][3]
            /\ parameters[j][3] <= parameters[j][1] \div 2

\* the planner returned for a throughput whose arm computes fewer than 1000
\* iterations and for one whose arm computes more than 32 walks
C16_Witness ==
    /\ mode = "plan" /\ pc = "done"
    /\ Unclamped(hashes_per_second[1])[1] < 1000
    /\ Unclamped(hashes_per_second[2])[2] > 32

\* the planner was called with a < b of one arm, and both calls returned
SameTierPair ==
    /\ mode = "plan" /\ pc = "done"
    /\ hashes_per_second[1] < hashes_per_second[2]
    /\ TierOf(hashes_per_second[1]) = TierOf(hashes_per_second[2])

\* C17: for throughputs a < b of the same tier, calculate_walk_parameters(a)
\* never yields fewer iterations than calculate_walk_parameters(b).
C17_IterationsMonotone == SameTierPair => parameters[1][1] >= parameters[2][1]

\* C17 as amended: for a < b of the same tier, a never yields more iterations
\* than b.
C17_IterationsNonDecreasing == SameTierPair => parameters[1][1] <= parameters[2][1]

\* a pair of one tier whose iterations differ
C17_Witness == SameTierPair /\ parameters[1][1] < parameters[2][1]

\* C18: for throughputs a < b of the same tier, calculate_walk_parameters(a)
\* never yields more walks than calculate_walk_parameters(b).
C18_WalksMonotone == SameTierPair => parameters[1][2] <= parameters[2][2]

\* a pair of one tier whose walk counts differ
C18_Witness == SameTierPair /\ parameters[1][2] < parameters[2][2]

\* the tier table of the claim: <<largest t, S, M, D, F>>, the last row for
\* every t above 500,000
TierTable ==
    << <<10000, 60, 2, 5000, 10>>,
       <<50000, 30, 4, 10000, 20>>,
       <<200000, 15, 6, 25000, 30>>,
       <<500000, 10, 8, 50000, 50>>,
       <<-1, 5, 12, 100000, 100>> >>

TableRow(t) ==
    IF t <= 10000 THEN TierTable[1]
    ELSE IF t <= 50000 THEN TierTable[2]
    ELSE IF t <= 200000 THEN TierTable[3]
    ELSE IF t <= 500000 THEN TierTable[4]
    ELSE TierTable[5]

\* the final clamp applied to (t*S, max(M, floor(t/D)), floor(t*S/F))
TableParameters(t) ==
    LET row == TableRow(t)
        iterations == Max(t * row[2], 1000)
    IN  <<iterations,
          Min(Max(Max(row[3], t \div row[4]), 2), 32),
          Min(Max((t * row[2]) \div row[5], 100), iterations \div 2)>>

\* C19: for every throughput t, calculate_walk_parameters(t) is the final clamp
\* applied to (t*S, max(M, floor(t/D)), floor(t*S/F)) for the row (S, M, D, F)
\* of t's tier, and the walk count is never below the tier's minimum M.
C19_TierTable ==
    mode = "plan" =>
        \A j \in 1..Len(parameters) :
            /\ parameters[j] = TableParameters(hashes_per_second[j])
            /\ parameters[j][2] >= TableRow(hashes_per_second[j])[3]

\* the same for the throughputs whose t*S a usize holds
TierTableBelowSaturation ==
    mode = "plan" =>
        \A j \in 1..Len(parameters) :
            /\ hashes_per_second[j] * TableRow(hashes_per_second[j])[2] <= PlanUsizeMax
                  => parameters[j] = TableParameters(hashes_per_second[j])
            /\ parameters[j][2] >= TableRow(hashes_per_second[j])[3]

\* a batch that goes through a pass at a candidate the oracle rejects moves on
\* to the next candidate and returns nothing
BatchAbsorbs(idx) ==
    (/\ batches[idx].pc = "running"
     /\ batches[idx].current <= batches[idx].b_end /\ ~found
     /\ OracleFails(batches[idx].current)
     /\ batches'[idx] # batches[idx]) =>
        /\ batches'[idx].pc = "running"
        /\ batches'[idx].res = Pending
        /\ batches'[idx].current = batches[idx].current + 1

\* the keys the next move of a walk can pass to the oracle
NextCandidates(w) ==
    {start + Move(w.position, w.step_size, end - start + 1, direction) :
        direction \in {1, -1}}

\* a walk that goes through a pass whose candidate the oracle rejects returns
\* nothing and has its next pass to make; if it stops, it is on the division
\* of line 122, which does not look at the oracle
WalkAbsorbs(id) ==
    (/\ walks[id].pc = "running" /\ walks[id].i < max_iter
     /\ \A k \in NextCandidates(walks[id]) : OracleFails(k)
     /\ walks'[id] # walks[id]) =>
        /\ walks'[id].i = IF walks'[id].pc = "running" THEN walks[id].i + 1 ELSE walks[id].i
        /\ walks'[id].pc = "running" => walks'[id].res = Pending
        /\ walks'[id].pc # "running" =>
              /\ walks'[id].pc = "fault"
              /\ ReseedFaults(walks[id].i, max_iter)

\* what a search or a walk returns is a match or "no match", and "no match"
\* when no partition matched
ReturnsNoError ==
    /\ (mode = "seq" /\ pc' = "done") =>
          /\ result'.kind \in {"match", "none"}
          /\ (\A idx \in DOMAIN batches' : batches'[idx].res.kind # "match")
                => result' = NoMatch
    /\ mode = "walk" =>
          \A id \in DOMAIN walks' :
              walks'[id].pc = "done" => walks'[id].res.kind \in {"match", "none"}

Processed(thread_id) ==
    IdleThread(thread_id).current_key..(handles[thread_id].current_key - 1)

\* the successful oracle calls of the threads 0..n-1
RECURSIVE Successes(_)
Successes(n) ==
    IF n = 0 THEN 0
    ELSE Successes(n - 1) + Cardinality({k \in Processed(n - 1) : ~OracleFails(k)})

\* a thread makes a pass at a candidate the oracle rejects
FailingPass(thread_id) ==
    /\ handles[thread_id].pc = "running"
    /\ OracleFails(handles[thread_id].current_key)
    /\ handles'[thread_id].current_key = handles[thread_id].current_key + 1

\* C21: a benchmark candidate whose oracle call fails adds nothing to the
\* shared total and does not stop its thread, and the total read after the join
\* is the number of successful oracle calls of all threads.
C21_BenchFailureAccounting ==
    [][mode = "bench" =>
          /\ \A thread_id \in DOMAIN handles :
                FailingPass(thread_id) =>
                    /\ total_keys_tested' = total_keys_tested
                    /\ handles'[thread_id].pc = "running"
          /\ pc' = "done" => total_keys_tested' = Successes(thread_count)']_vars

\* the part of C21 about the candidates the oracle accepts
BenchCountsWithoutFailure ==
    (/\ mode = "bench" /\ pc = "done"
     /\ \A thread_id \in DOMAIN handles : \A k \in Processed(thread_id) : ~OracleFails(k))
        => total_keys_tested = Successes(thread_count)

\* C22: whatever the thread count and however many candidates each thread
\* has processed, two different benchmark threads never share a candidate.
C22_BenchDisjoint ==
    mode = "bench" =>
        \A t1, t2 \in DOMAIN handles :
            t1 # t2 => Processed(t1) \cap Processed(t2) = {}

\* the same while no thread has processed more candidates than lie between the
\* first candidates of two threads
BenchDisjointWithinStride ==
    (/\ mode = "bench"
     /\ \A t \in DOMAIN handles : Cardinality(Processed(t)) <= BenchStride) =>
        \A t1, t2 \in DOMAIN handles :
            t1 # t2 => Processed(t1) \cap Processed(t2) = {}

\* the candidates a batch of the sequential search has handed to the oracle
BatchExamined(b) ==
    IF b.handed THEN (b.current - b.b_start) + (IF b.res.kind = "match" THEN 1 ELSE 0)
    ELSE 0

RECURSIVE SumExamined(_, _)
SumExamined(f, n) ==
    IF n = 0 THEN 0 ELSE SumExamined(f, n - 1) + f[n - 1]

\* the candidates the partitions have examined so far
Examined ==
    IF mode = "seq"
    THEN SumExamined([idx \in DOMAIN batches |-> BatchExamined(batches[idx])],
                     Cardinality(DOMAIN batches))
    ELSE SumExamined([id \in DOMAIN walks |-> walks[id].oracle_calls],
                     Cardinality(DOMAIN walks))

\* C23: during a sequential search or a walk search, in every interleaving, the
\* shared counter keys_checked never decreases and never exceeds the number of
\* candidates the partitions have examined so far.
C23_ProgressCounter ==
    [][/\ keys_checked' >= keys_checked
       /\ keys_checked' <= Examined']_vars

\* two batches are under way, part of the work is published and part is not
C23_Witness ==
    /\ mode = "seq"
    /\ Cardinality({idx \in DOMAIN batches : batches[idx].pc = "running"
                       /\ batches[idx].current > batches[idx].b_start}) >= 2
    /\ keys_checked > 0
    /\ keys_checked < Examined

\* a walk has published part of the candidates it examined
C23_WalkWitness ==
    /\ mode = "walk"
    /\ keys_checked > 0
    /\ keys_checked < Examined

\* ceil(range_size / bs)
CeilDiv(range_size, bs) == (range_size + bs - 1) \div bs

\* search_range has created its batches
BatchesCreated == mode = "seq" /\ pc \in {"run", "done"}

\* C24: for every range and every batch size >= 1, search_range creates exactly
\* ceil(range_size / batch_size) batches and every one of them is non-empty
\* (batch start <= batch end), also when range_size is an exact multiple of
\* batch_size.
C24_BatchCount ==
    BatchesCreated =>
        /\ Cardinality(DOMAIN batches) = CeilDiv(end - start + 1, batch_size)
        /\ \A idx \in DOMAIN batches :
              batches[idx].handed => batches[idx].b_start <= batches[idx].b_end

\* what the code does: range_size / batch_size + 1 batches, capped at the
\* largest usize; that is the ceiling when batch_size does not divide range_size
BatchCountIsQuotientPlusOne ==
    BatchesCreated =>
        /\ Cardinality(DOMAIN batches) =
              Min((end - start + 1) \div batch_size + 1, UsizeMax)
        /\ ((end - start + 1) % batch_size # 0
                /\ (end - start + 1) \div batch_size + 1 <= UsizeMax)
              => Cardinality(DOMAIN batches) = CeilDiv(end - start + 1, batch_size)

\* the walk is inside its loop or about to leave it
Walking(id) == walks[id].pc = "running"

\* C25: in every reachable state of a walk (after the initialisation, every
\* move, cycle reset, jitter and reseed) 0 <= position < range_size, so every
\* candidate handed to the oracle, start + position after the move, lies in
\* [start, end].
C25_PositionInRange ==
    mode = "walk" =>
        \A id \in DOMAIN walks :
            /\ Walking(id) =>
                  /\ walks[id].position \in 0..(end - start)
                  /\ \A direction \in {1, -1} :
                        start + Move(walks[id].position, walks[id].step_size,
                                     end - start + 1, direction) \in start..end
            /\ walks[id].res.kind = "match" =>
                  start + walks[id].position \in start..end

\* a walk that has moved and been reset or adapted stands on the last
\* position of a range of more than one key
C25_Witness ==
    /\ mode = "walk" /\ end > start
    /\ \E id \in DOMAIN walks :
          /\ Walking(id)
          /\ walks[id].i >= 2
          /\ walks[id].total_adaptations >= 1
          /\ walks[id].position = end - start

\* C26: for every range_size n >= 1, every position 0 <= p < n and every
\* step_size s >= 1 (also s >= n, and n wider than a machine word), a forward
\* move yields (p + s) mod n, a backward move yields the mathematical
\* (p - s) mod n, and no subtraction of the move goes below zero.
C26_RingMove ==
    mode = "move" =>
        LET n == end - start + 1
            p == walks[0].position
            s == walks[0].step_size
        IN  /\ n >= 1 /\ p \in 0..(n - 1) /\ s >= 1
            /\ Move(p, s, n, 1) = (p + s) % n
            /\ Move(p, s, n, -1) = (p - s) % n
            /\ \A sub \in BackwardSubtractions(p, s, n) : sub[1] >= sub[2]

\* after a move: a step longer than a ring wider than the machine word, from a
\* position the reduced step passes below
C26_Witness ==
    /\ mode = "move"
    /\ walks[0].i >= 1
    /\ end - start + 1 > Word
    /\ walks[0].step_size > end - start + 1
    /\ walks[0].step_size % (end - start + 1) > walks[0].position

\* the next pass of the walk lands on a visited position whatever direction it
\* draws
LandsOnVisited(id) ==
    /\ Walking(id) /\ walks[id].i < max_iter
    /\ \A direction \in {1, -1} :
          Move(walks[id].position, walks[id].step_size, end - start + 1, direction)
              \in walks[id].seen

\* the next pass of the walk lands on a fresh position whatever direction it
\* draws
LandsOnFresh(id) ==
    /\ Walking(id) /\ walks[id].i < max_iter
    /\ \A direction \in {1, -1} :
          Move(walks[id].position, walks[id].step_size, end - start + 1, direction)
              \notin walks[id].seen

\* C27: in an iteration whose move lands on a position already in the visited
\* set the walk makes no oracle call and skips the counting, the adaptation,
\* the reseed check and the boost; it sets position to a value in
\* [0, range_size), step_size to a member of the fixed candidate set, empties
\* the visited set, adds one to the adaptation count and resets
\* iterations-since-adapt to 0; the iteration consumes one unit of the budget.
C27_CycleReset ==
    [][\A id \in DOMAIN walks :
          (mode = "walk" /\ LandsOnVisited(id) /\ walks'[id] # walks[id]) =>
              /\ walks'[id].pc = "running"
              /\ walks'[id].oracle_calls = walks[id].oracle_calls
              /\ walks'[id].local_count = walks[id].local_count
              /\ keys_checked' = keys_checked
              /\ walks'[id].position \in 0..(end - start)
              /\ walks'[id].step_size \in {step_variants[j] : j \in 1..Len(step_variants)}
              /\ walks'[id].seen = {}
              /\ walks'[id].total_adaptations = walks[id].total_adaptations + 1
              /\ walks'[id].iterations_since_adapt = 0
              /\ walks'[id].i = walks[id].i + 1]_vars

\* a pass that lands on a fresh position does call the oracle
FreshPassTests ==
    [][\A id \in DOMAIN walks :
          (mode = "walk" /\ LandsOnFresh(id) /\ walks'[id] # walks[id]) =>
              walks'[id].oracle_calls = walks[id].oracle_calls + 1]_vars

\* a walk right after a cycle reset: a pass without an oracle call has left the
\* visited set empty
C27_Witness ==
    /\ mode = "walk"
    /\ \E id \in DOMAIN walks :
          /\ Walking(id)
          /\ walks[id].oracle_calls >= 1
          /\ walks[id].oracle_calls < walks[id].i
          /\ walks[id].seen = {}
          /\ walks[id].iterations_since_adapt = 0
          /\ walks[id].local_count > 0

\* C28: once the found flag is set, every running batch stops after examining
\* at most one check interval of further candidates (the flag is tested before
\* every candidate, so none), a batch that has not started examines no
\* candidate, and each batch scans its candidates in strictly increasing order
\* until it ends or yields.
C28_SequentialEarlyExit ==
    [][mode = "seq" =>
          \A idx \in DOMAIN batches :
              /\ found => /\ BatchExamined(batches'[idx]) = BatchExamined(batches[idx])
                          /\ batches'[idx].current = batches[idx].current
                          /\ batches[idx].pc = "pending" => ~batches'[idx].handed
                          /\ batches'[idx].pc # "running" \/ batches'[idx] = batches[idx]
              /\ batches[idx].pc = "running" =>
                    \/ batches'[idx] = batches[idx]
                    \* the candidate current was examined and did not match
                    \/ /\ batches'[idx].pc = "running"
                       /\ batches'[idx].current = batches[idx].current + 1
                       /\ batches[idx].current \in batches[idx].b_start..batches[idx].b_end
                    \* the candidate current was examined and matched
                    \/ /\ batches'[idx].pc = "returned"
                       /\ batches'[idx].current = batches[idx].current
                       /\ batches'[idx].res.kind = "match"
                       /\ batches[idx].current \in batches[idx].b_start..batches[idx].b_end
                    \* the batch ended or yielded to the flag
                    \/ /\ batches'[idx].pc = "done"
                       /\ batches'[idx].current = batches[idx].current
                       /\ batches[idx].current > batches[idx].b_end \/ found]_vars

\* the flag is set while a batch has candidates left and another has not started
C28_Witness ==
    /\ mode = "seq" /\ found
    /\ \E idx \in DOMAIN batches :
          /\ batches[idx].pc = "running"
          /\ batches[idx].current > batches[idx].b_start
          /\ batches[idx].current <= batches[idx].b_end
    /\ \E idx \in DOMAIN batches : batches[idx].pc = "pending"

\* the cycle resets of a running walk: its passes without an oracle call
CycleResets(w) == w.i - w.oracle_calls

\* the periodic adaptations of a running walk: total_adaptations counts them
\* and the cycle resets
PeriodicAdaptations(w) == w.total_adaptations - CycleResets(w)

\* the step is a pass of the walk that tests its candidate and makes a
\* periodic adaptation
PeriodicAdaptationPass(id) ==
    /\ mode = "walk" /\ Walking(id)
    /\ walks'[id].pc = "running"
    /\ walks'[id].oracle_calls = walks[id].oracle_calls + 1
    /\ walks'[id].total_adaptations = walks[id].total_adaptations + 1

\* the pass evaluates the reseed check of line 122, which can clear the
\* visited set as well
ReseedChecked(id) ==
    walks[id].i > 0 /\ walks[id].i % (max_iter \div ReseedFractions) = 0

\* C29: counting only the periodic adaptations of a walk, the visited set is
\* cleared on every 4th of them (the first, the fifth, ...) and on no other,
\* however many cycle resets happened in between.
C29_PeriodicClear ==
    [][\A id \in DOMAIN walks :
          PeriodicAdaptationPass(id) =>
              /\ PeriodicAdaptations(walks[id]) % ClearEvery = 0
                    => walks'[id].seen = {}
              /\ (PeriodicAdaptations(walks[id]) % ClearEvery # 0 /\ ~ReseedChecked(id))
                    => walks'[id].seen # {}]_vars

\* what the code does: the clear goes by total_adaptations, cycle resets included
ClearByTotalAdaptations ==
    [][\A id \in DOMAIN walks :
          PeriodicAdaptationPass(id) =>
              /\ walks[id].total_adaptations % ClearEvery = 0
                    => walks'[id].seen = {}
              /\ (walks[id].total_adaptations % ClearEvery # 0 /\ ~ReseedChecked(id))
                    => walks'[id].seen # {}
              /\ (walks[id].total_adaptations % ClearEvery # 0 /\ walks'[id].seen = {})
                    => ReseedChecked(id)]_vars

\* a fifth periodic adaptation is reached after cycle resets
PeriodicAfterResets ==
    /\ mode = "walk"
    /\ \E id \in DOMAIN walks :
          /\ Walking(id)
          /\ CycleResets(walks[id]) >= 1
          /\ PeriodicAdaptations(walks[id]) > ClearEvery

\* line 122: the passes of a walk of the given budget at which the reseed
\* check is evaluated when the pass tests its candidate
ReseedCheckpoints(budget) ==
    {j \in 1..(budget - 1) : j % (budget \div ReseedFractions) = 0}

\* the reseed checks a running walk without a cycle reset has evaluated: every
\* one of its passes tested its candidate and went on to line 122
ReseedChecksEvaluated(w) == {j \in ReseedCheckpoints(max_iter) : j < w.i}

\* C30: the reseed check of a walk is evaluated only at the 1/8 fractions of
\* the iteration budget, at most 8 times during one walk, for every iteration
\* budget >= 8, multiples of 8 or not.
C30_ReseedCheckpoints ==
    (mode = "walk" /\ max_iter >= ReseedFractions) =>
        \A id \in DOMAIN walks :
            (Walking(id) /\ CycleResets(walks[id]) = 0) =>
                Cardinality(ReseedChecksEvaluated(walks[id])) <= ReseedFractions

\* for a budget that is a multiple of 8 the checkpoints are the multiples of
\* budget / 8 below the budget, seven of them
ReseedCheckpointsOfMultiples ==
    (mode = "walk" /\ max_iter >= ReseedFractions /\ max_iter % ReseedFractions = 0) =>
        /\ ReseedCheckpoints(max_iter) =
              {k * (max_iter \div ReseedFractions) : k \in 1..(ReseedFractions - 1)}
        /\ \A id \in DOMAIN walks :
              (Walking(id) /\ CycleResets(walks[id]) = 0) =>
                  Cardinality(ReseedChecksEvaluated(walks[id])) < ReseedFractions

\* a walk of a budget of 8 has passed all its checkpoints
ReseedAllChecked ==
    /\ mode = "walk" /\ max_iter = ReseedFractions
    /\ \E id \in DOMAIN walks :
          /\ Walking(id) /\ CycleResets(walks[id]) = 0
          /\ walks[id].i = max_iter

\* C31: in every reachable state of a walk step_size >= 1: after the
\* initialisation, a cycle reset, a periodic adaptation, a forced reseed, and
\* the multiplication modulo range_size, which is floored to 1 when the
\* product is a multiple of range_size.
C31_StepSizePositive ==
    mode = "walk" =>
        \A id \in DOMAIN walks :
            Walking(id) =>
                /\ walks[id].step_size >= 1
                /\ \A w \in Boosted(walks[id], end - start + 1) : w.step_size >= 1

\* a walk has gone through the pass of the first boost, on a range whose size
\* divides the boosted step
C31_Witness ==
    /\ mode = "walk"
    /\ \E id \in DOMAIN walks :
          /\ Walking(id)
          /\ walks[id].i = WalkBoostEvery + 1
          /\ walks[id].oracle_calls = walks[id].i
          /\ walks[id].step_size = 1
          /\ \E m \in Draws(BoostLo, BoostHi) : m % (end - start + 1) = 0

\* a sequential search has ended with "no match"
SeqNoMatch == mode = "seq" /\ pc = "done" /\ result = NoMatch

\* a single walk has ended with "no match"
WalkNoMatch(id) == mode = "walk" /\ walks[id].pc = "done" /\ walks[id].res = NoMatch

\* the partitions that ended with a match
Matching(tasks) == {j \in DOMAIN tasks : tasks[j].res.kind = "match"}

\* the candidates the matching partitions examined since their last flush
RECURSIVE Unflushed(_, _)
Unflushed(tasks, n) ==
    IF n = 0 THEN 0
    ELSE Unflushed(tasks, n - 1)
           + (IF tasks[n - 1].res.kind = "match" THEN tasks[n - 1].local_count + 1 ELSE 0)

\* C32: when a sequential search ends with "no match", keys_checked has grown
\* by exactly range_size; when a single walk ends with "no match",
\* keys_checked has grown by exactly its iteration budget minus the number of
\* its cycle-reset iterations; when a search ends with a match, the candidates
\* the matching partition examined since its last flush are not added.
C32_CounterExactness ==
    /\ SeqNoMatch => keys_checked = end - start + 1
    /\ \A id \in DOMAIN walks :
          WalkNoMatch(id) => keys_checked = max_iter - CycleResets(walks[id])
    /\ (mode = "seq" /\ pc = "done" /\ result.kind = "match")
          => keys_checked = Examined - Unflushed(batches, Cardinality(DOMAIN batches))
    /\ (mode = "walk" /\ pc = "run" /\ \A id \in DOMAIN walks : walks[id].res.kind = "match")
          => keys_checked = Examined - Unflushed(walks, Cardinality(DOMAIN walks))

\* the batch count and the batch offsets of the search fit their integer types
BatchArithmeticExact ==
    /\ (end - start + 1) \div batch_size + 1 <= UsizeMax
    /\ \A idx \in DOMAIN batches : ~BatchOffsetOverflows(idx, batch_size)

\* the sequential part of the claim where the batch arithmetic is exact
SeqCounterExactWhenArithmeticExact ==
    (SeqNoMatch /\ BatchArithmeticExact) => keys_checked = end - start + 1

\* the walk part and the match part of the claim
CounterExactForWalksAndMatches ==
    /\ \A id \in DOMAIN walks :
          WalkNoMatch(id) => keys_checked = max_iter - CycleResets(walks[id])
    /\ (mode = "seq" /\ pc = "done" /\ result.kind = "match")
          => keys_checked = Examined - Unflushed(batches, Cardinality(DOMAIN batches))
    /\ (mode = "walk" /\ pc = "run" /\ \A id \in DOMAIN walks : walks[id].res.kind = "match")
          => keys_checked = Examined - Unflushed(walks, Cardinality(DOMAIN walks))

\* a walk that made a cycle reset has ended with "no match"
WalkNoMatchAfterReset ==
    \E id \in DOMAIN walks :
        WalkNoMatch(id) /\ CycleResets(walks[id]) >= 1 /\ keys_checked >= 1

\* a sequential search has ended with a match behind unflushed candidates
SeqMatchUnflushed ==
    /\ mode = "seq" /\ pc = "done" /\ result.kind = "match"
    /\ \E idx \in DOMAIN batches :
          batches[idx].res.kind = "match" /\ batches[idx].local_count >= 1

\* C33: for every batch index search_range produces, the offset
\* batch_idx * batch_size is the exact product (no 64-bit overflow, no
\* truncated batch count), also for range sizes above the machine word, so
\* batch i always starts at start + i * batch_size.
C33_BatchStartExact ==
    (mode = "seq" /\ pc # "call" /\ start <= end) =>
        /\ Cardinality(DOMAIN batches) = (end - start + 1) \div batch_size + 1
        /\ \A idx \in DOMAIN batches :
              /\ batches[idx].pc # "fault"
              /\ batches[idx].handed =>
                    batches[idx].b_start = start + idx * batch_size

\* the starts are exact where the count and the offsets fit their types
BatchStartExactWhenArithmeticExact ==
    (mode = "seq" /\ pc # "call" /\ start <= end /\ BatchArithmeticExact) =>
        /\ Cardinality(DOMAIN batches) = (end - start + 1) \div batch_size + 1
        /\ \A idx \in DOMAIN batches :
              /\ batches[idx].pc # "fault"
              /\ batches[idx].handed =>
                    batches[idx].b_start = start + idx * batch_size

\* a batch has started at a wrapped offset
BatchStartWrapped ==
    /\ mode = "seq"
    /\ \E idx \in DOMAIN batches :
          /\ batches[idx].handed
          /\ batches[idx].b_start # start + idx * batch_size

\* a batch has stopped on the overflow of its offset
BatchStartPanicked ==
    mode = "seq" /\ \E idx \in DOMAIN batches : batches[idx].pc = "fault"

\* every oracle call of the benchmark so far has succeeded
AllSucceeded ==
    \A thread_id \in DOMAIN handles : \A k \in Processed(thread_id) : ~OracleFails(k)

\* the candidates the first n threads have processed
RECURSIVE ProcessedBy(_)
ProcessedBy(n) ==
    IF n = 0 THEN 0 ELSE ProcessedBy(n - 1) + Cardinality(Processed(n - 1))

\* C34: when every oracle call succeeds, in every interleaving of the workers'
\* flushes the total read after the join is the sum over the workers of the
\* candidates each processed; no worker processes a candidate once the
\* duration has elapsed, and the join completes.
C34_BenchTotal ==
    /\ [](mode = "bench" /\ pc = "done" /\ AllSucceeded
            => total_keys_tested = ProcessedBy(thread_count))
    /\ [][(mode = "bench" /\ ~BenchGoesOn) =>
             \A thread_id \in DOMAIN handles :
                 /\ thread_id \in DOMAIN handles'
                 /\ handles'[thread_id].current_key = handles[thread_id].current_key]_vars
    /\ <>(mode = "bench" /\ pc = "done")

\* two workers have each flushed, one has added a remainder, every call succeeded
C34_Witness ==
    /\ mode = "bench" /\ pc = "done" /\ AllSucceeded
    /\ thread_count = 2
    /\ \A thread_id \in DOMAIN handles :
          Cardinality(Processed(thread_id)) >= BenchFlushEvery
    /\ \E thread_id \in DOMAIN handles : handles[thread_id].local_count > 0

\* C35: in every reachable state of a walk the visited set holds at most
\* min(range_size, 4 * max(1, adapt_interval)) positions: every cycle reset
\* clears it and at most three periodic adaptations in a row leave it
\* uncleared.
C35_VisitedBounded ==
    mode = "walk" =>
        \A id \in DOMAIN walks :
            Cardinality(walks[id].seen)
                <= Min(end - start + 1, ClearEvery * Max(1, walks[id].adapt))

\* the range is wider than the bound, adaptations have cleared the set and
\* three visits have gathered since the last clear
C35_Witness ==
    /\ mode = "walk"
    /\ \E id \in DOMAIN walks :
          /\ Walking(id)
          /\ end - start + 1 > ClearEvery * Max(1, walks[id].adapt)
          /\ walks[id].total_adaptations > ClearEvery
          /\ Cardinality(walks[id].seen) = ClearEvery - 1

\* C36: between two consecutive clears of the visited set a walk never hands
\* the same position to the oracle twice (a pass that calls the oracle tests a
\* position that is not in the set and adds it, or the set is cleared), and
\* over a whole walk the oracle calls plus the cycle-reset iterations never
\* exceed the iteration budget.
C36_NoRepeatedTest ==
    [][\A id \in DOMAIN walks :
          (mode = "walk" /\ Walking(id) /\ walks'[id] # walks[id]) =>
              /\ walks'[id].oracle_calls + walks'[id].cycle_resets <= max_iter
              /\ (walks'[id].oracle_calls = walks[id].oracle_calls + 1
                     /\ walks'[id].pc = "running") =>
                    \/ walks'[id].seen = {}
                    \/ \E direction \in {1, -1} :
                          LET p == Move(walks[id].position, walks[id].step_size,
                                        end - start + 1, direction)
                          IN  p \notin walks[id].seen
                                 /\ walks'[id].seen = walks[id].seen \cup {p}
              /\ walks'[id].res.kind = "match" =>
                    walks'[id].position \notin walks[id].seen]_vars

\* the walk has used up its budget with oracle calls and cycle resets, and two
\* positions have been tested since the last clear
C36_Witness ==
    /\ mode = "walk"
    /\ \E id \in DOMAIN walks :
          /\ Walking(id)
          /\ walks[id].cycle_resets >= 1
          /\ walks[id].oracle_calls + walks[id].cycle_resets = max_iter
          /\ Cardinality(walks[id].seen) = 2

\* the passes of a running walk are its oracle calls and its cycle resets
PassesAreCallsAndResets ==
    mode = "walk" =>
        \A id \in DOMAIN walks :
            Walking(id) => walks[id].i = walks[id].oracle_calls + walks[id].cycle_resets

====
